---- MODULE Spec2Model ----
(***************************************************************************)
(* pythogic.automaton.DFA: the DFA value, its construction check, the      *)
(* transformations complete / minimize / reachable / coreachable / trim    *)
(* and word_acceptance.                                                    *)
(*                                                                         *)
(* A DFA is a record                                                       *)
(*   [alphabet, states, initial_state, accepting_states,                   *)
(*    transition_function]                                                 *)
(* whose transition_function is a Python dict of dicts: a function from a  *)
(* set of states (the states that have an entry) to functions from a set   *)
(* of symbols to states.  A state with no entry and a state with the empty *)
(* entry {} are different values, as they are in Python.                   *)
(*                                                                         *)
(* States are the integers 0..NumStates-1: 0 is a falsy Python value, the  *)
(* others are truthy.  None and the Sink object are two more values.       *)
(* An operation that may raise returns [err, dfa] or [err, value], err     *)
(* being "none" or the name of the exception.                              *)
(***************************************************************************)
EXTENDS Integers, Sequences, FiniteSets

VARIABLES pc, cur, prev, hist, word, acc

vars == <<pc, cur, prev, hist, word, acc>>

\* ------------------------------------------------------------- bounds
NumStates == 2
NumSymbols == 1
MaxWordLen == 3

\* ------------------------------------------------------------- values
\* Python's None: an absent initial state, an absent successor.
None == -1
\* The object Sink() of pythogic.automaton.misc, equal to itself only.
Sink == -2

StateVals == 0 .. (NumStates - 1)
Symbols == 1 .. NumSymbols

\* bool(x) of a state value: None and the integer 0 are falsy.
Truthy(x) == x # None /\ x # 0

\* Python dicts with keys in K and values in V.
Dicts(K, V) == UNION {[D -> V] : D \in SUBSET K}

\* Lists over S of length at most n.
Words(S, n) == UNION {[1 .. k -> S] : k \in 0 .. n}

NoDFA ==
    [alphabet |-> {}, states |-> {}, initial_state |-> None,
     accepting_states |-> {}, transition_function |-> <<>>]

NoAcc == [err |-> "none", value |-> FALSE]

\* ------------------------------------------------------- construction
\* DFA._check_input: TRUE when it returns, FALSE when it raises ValueError.
check_input(alphabet, states, initial_state, accepting_states, transition_function) ==
    /\ ~ (Truthy(initial_state) /\ initial_state \notin states)
    /\ ~ (\E s \in accepting_states : s \notin states)
    /\ \A s \in DOMAIN transition_function :
          ~ (\/ s \notin states
             \/ \E sym \in DOMAIN transition_function[s] :
                   /\ sym \notin alphabet
                   /\ transition_function[s][sym] \notin states)

\* DFA.__init__
DFA(alphabet, states, initial_state, accepting_states, transition_function) ==
    IF check_input(alphabet, states, initial_state, accepting_states, transition_function)
    THEN [err |-> "none",
          dfa |-> [alphabet |-> alphabet, states |-> states,
                   initial_state |-> initial_state,
                   accepting_states |-> accepting_states,
                   transition_function |-> transition_function]]
    ELSE [err |-> "ValueError", dfa |-> NoDFA]

\* Invariants 1-3 of the data model.
WellFormed(d) ==
    /\ d.initial_state = None \/ d.initial_state \in d.states
    /\ d.accepting_states \subseteq d.states
    /\ \A s \in DOMAIN d.transition_function :
          /\ s \in d.states
          /\ \A sym \in DOMAIN d.transition_function[s] :
                /\ sym \in d.alphabet
                /\ d.transition_function[s][sym] \in d.states

\* Constructor arguments, well-formed or not.
RawArgs ==
    [alphabet : SUBSET Symbols,
     states : SUBSET StateVals,
     initial_state : StateVals \cup {None},
     accepting_states : SUBSET StateVals,
     transition_function : Dicts(StateVals, Dicts(Symbols, StateVals))]

\* The well-formed automata over the whole alphabet.
WellFormedDFAs ==
    UNION {[alphabet : {Symbols},
            states : {S},
            initial_state : S \cup {None},
            accepting_states : SUBSET S,
            transition_function : Dicts(S, Dicts(Symbols, S))] : S \in SUBSET StateVals}

\* ---------------------------------------------------------- completion
\* DFA.complete: every state that has an entry of its own gets the missing
\* symbols of the alphabet routed to the sink.
complete(dfa) ==
    LET tf == dfa.transition_function
        sink == Sink
        transitions ==
            [state \in DOMAIN tf |->
                [action \in (DOMAIN tf[state]) \cup dfa.alphabet |->
                    IF action \in DOMAIN tf[state] THEN tf[state][action] ELSE sink]]
    IN  DFA(dfa.alphabet, dfa.states \cup {sink}, dfa.initial_state,
            dfa.accepting_states, transitions)

\* -------------------------------------------------------- minimization
\* The first z_next: the pairs that agree on acceptance.
z_initial(dfa) ==
    {p \in dfa.states \X dfa.states :
        \/ p[1] \in dfa.accepting_states /\ p[2] \in dfa.accepting_states
        \/ p[1] \notin dfa.accepting_states /\ p[2] \notin dfa.accepting_states}

\* dfa.transition_function[s][a] if both keys are there, else None.
successor(dfa, s, a) ==
    IF s \in DOMAIN dfa.transition_function /\ a \in DOMAIN dfa.transition_function[s]
    THEN dfa.transition_function[s][a]
    ELSE None

\* Whether one round of the loop removes (s, t) from z_next: for some
\* symbol one of the two tests fires.
removed(dfa, z_current, s, t) ==
    \E a \in dfa.alphabet :
        LET tf == dfa.transition_function
            s_prime == successor(dfa, s, a)
            t_prime == successor(dfa, t, a)
        IN  \/ /\ Truthy(s_prime)
               /\ ~ (/\ t \in DOMAIN tf
                     /\ \E tp \in dfa.states :
                           tf[t][a] = tp /\ <<s_prime, tp>> \in z_current)
            \/ /\ Truthy(t_prime)
               /\ ~ (/\ s \in DOMAIN tf
                     /\ \E sp \in dfa.states :
                           tf[s][a] = sp /\ <<sp, t_prime>> \in z_current)

\* One round of the while loop.
refine(dfa, z_current) ==
    {p \in z_current : ~ removed(dfa, z_current, p[1], p[2])}

\* The while loop: z_current when z_current = z_next.
RECURSIVE greatest_fixpoint(_, _)
greatest_fixpoint(dfa, z) ==
    IF refine(dfa, z) = z THEN z ELSE greatest_fixpoint(dfa, refine(dfa, z))

\* state2equiv_class[s]
state2equiv_class(z, s) == {p[2] : p \in {q \in z : q[1] = s}}

\* set(map(frozenset, state2equiv_class.values()))
equivalence_classes(dfa, z) == {state2equiv_class(z, s) : s \in dfa.states}

\* The orders enumerate() may yield the elements of the set S in.
Enumerations(S) ==
    {e \in [0 .. (Cardinality(S) - 1) -> S] :
        \A i, j \in DOMAIN e : i # j => e[i] # e[j]}

\* equiv_class2new_state[ec], e being the order of the enumeration.
equiv_class2new_state(e, ec) == CHOOSE i \in DOMAIN e : e[i] = ec

\* The orders a dict with the keys K is iterated in.
KeyOrders(K) ==
    {o \in [1 .. Cardinality(K) -> K] :
        \A i, j \in DOMAIN o : i # j => o[i] # o[j]}

\* new_transition_function: the entries are written in the order the
\* states are iterated in, a later write replacing an earlier one.
new_transition_function(dfa, z, e, order) ==
    LET tf == dfa.transition_function
        new(s) == equiv_class2new_state(e, state2equiv_class(z, s))
        writers(n, action) ==
            {i \in DOMAIN order : new(order[i]) = n /\ action \in DOMAIN tf[order[i]]}
        last(n, action) ==
            order[CHOOSE i \in writers(n, action) : \A j \in writers(n, action) : j <= i]
    IN  [n \in {new(s) : s \in {x \in DOMAIN tf : DOMAIN tf[x] # {}}} |->
            [action \in UNION {DOMAIN tf[s] : s \in {x \in DOMAIN tf : new(x) = n}} |->
                new(tf[last(n, action)][action])]]

\* DFA.minimize; e is the order the equivalence classes are enumerated in,
\* order the order the transition table is iterated in.
minimize(orig_dfa, e, order) ==
    LET dfa == complete(orig_dfa).dfa
        z == greatest_fixpoint(dfa, z_initial(dfa))
        new(s) == equiv_class2new_state(e, state2equiv_class(z, s))
    IN  IF complete(orig_dfa).err # "none"
        THEN complete(orig_dfa)
        ELSE IF dfa.initial_state \notin dfa.states
        THEN [err |-> "KeyError", dfa |-> NoDFA]
        ELSE DFA(dfa.alphabet,
                 {equiv_class2new_state(e, ec) : ec \in equivalence_classes(dfa, z)},
                 new(dfa.initial_state),
                 {new(old_state) : old_state \in dfa.accepting_states},
                 new_transition_function(dfa, z, e, order))

\* -------------------------------------------------------- reachability
\* One round of the loop of DFA.reachable: the successors of z_current
\* are added.
reachable_step(dfa, z_current) ==
    LET tf == dfa.transition_function
    IN  z_current \cup
        UNION {{tf[s][a] : a \in DOMAIN tf[s]} : s \in z_current \cap DOMAIN tf}

RECURSIVE reachable_fixpoint(_, _)
reachable_fixpoint(dfa, z) ==
    IF reachable_step(dfa, z) = z THEN z
    ELSE reachable_fixpoint(dfa, reachable_step(dfa, z))

\* The transitions of the states of new_states that lead into new_states;
\* a state keeps an entry only if it keeps a transition.
restricted_transition_function(dfa, new_states) ==
    LET tf == dfa.transition_function
        kept(s) == {a \in DOMAIN tf[s] : tf[s][a] \in new_states}
    IN  [s \in {x \in new_states \cap DOMAIN tf : kept(x) # {}} |->
            [a \in kept(s) |-> tf[s][a]]]

\* DFA.reachable
reachable(dfa) ==
    LET new_states == reachable_fixpoint(dfa, {dfa.initial_state})
    IN  DFA(dfa.alphabet, new_states, dfa.initial_state,
            new_states \cap dfa.accepting_states,
            restricted_transition_function(dfa, new_states))

\* ------------------------------------------------------ coreachability
\* coreachable_step following the transitions forwards, as reachable does:
\* the successors of z_current are added instead of its predecessors.
coreachable_step_forwards(dfa, z_current) ==
    LET tf == dfa.transition_function
    IN  z_current \cup
        UNION {{tf[s][a] : a \in DOMAIN tf[s]} : s \in z_current \cap DOMAIN tf}

\* One round of the loop of DFA.coreachable: the states with a transition
\* into z_next are added.
coreachable_step(dfa, z_current) ==
    LET tf == dfa.transition_function
    IN  z_current \cup
        {state \in dfa.states \cap DOMAIN tf :
            \E a \in DOMAIN tf[state] : tf[state][a] \in z_current}

RECURSIVE coreachable_fixpoint(_, _)
coreachable_fixpoint(dfa, z) ==
    IF coreachable_step(dfa, z) = z THEN z
    ELSE coreachable_fixpoint(dfa, coreachable_step(dfa, z))

\* The initial state of the result of DFA.coreachable.
coreachable_initial_state(dfa, new_states) ==
    IF dfa.initial_state \notin new_states THEN None ELSE dfa.initial_state

\* DFA.coreachable
coreachable(dfa) ==
    LET new_states == coreachable_fixpoint(dfa, dfa.accepting_states)
    IN  DFA(dfa.alphabet, new_states, coreachable_initial_state(dfa, new_states),
            dfa.accepting_states,
            restricted_transition_function(dfa, new_states))

\* DFA.trim
trim(dfa) ==
    IF reachable(dfa).err # "none" THEN reachable(dfa)
    ELSE coreachable(reachable(dfa).dfa)

\* ----------------------------------------------------- word acceptance
\* The loop of DFA.word_acceptance from current_state on.
RECURSIVE run(_, _, _)
run(dfa, current_state, w) ==
    IF w = <<>>
    THEN [err |-> "none", value |-> current_state \in dfa.accepting_states]
    ELSE IF current_state \notin DOMAIN dfa.transition_function
    THEN [err |-> "KeyError", value |-> FALSE]
    ELSE IF Head(w) \notin DOMAIN dfa.transition_function[current_state]
    THEN [err |-> "none", value |-> FALSE]
    ELSE run(dfa, dfa.transition_function[current_state][Head(w)], Tail(w))

\* DFA.word_acceptance
word_acceptance(dfa, w) ==
    IF \E i \in DOMAIN w : w[i] \notin dfa.alphabet
    THEN [err |-> "AssertionError", value |-> FALSE]
    ELSE run(dfa, dfa.initial_state, w)

\* --------------------------------------------------------- operations
\* The state after a well-formed automaton has been constructed.
Init ==
    /\ pc = "built"
    /\ cur \in WellFormedDFAs
    /\ prev = NoDFA
    /\ hist = <<>>
    /\ word = <<>>
    /\ acc = NoAcc

\* The state before the constructor has run on its arguments.
InitConstruct ==
    /\ pc = "new"
    /\ cur \in RawArgs
    /\ prev = NoDFA
    /\ hist = <<>>
    /\ word = <<>>
    /\ acc = NoAcc

\* DFA(alphabet, states, initial_state, accepting_states, transition_function)
Construct ==
    /\ pc = "new"
    /\ LET r == DFA(cur.alphabet, cur.states, cur.initial_state,
                    cur.accepting_states, cur.transition_function)
       IN  pc' = IF r.err = "none" THEN "built" ELSE "rejected"
    /\ UNCHANGED <<cur, prev, hist, word, acc>>

\* The automaton cur is replaced by the result r of the transformation
\* named op, or the run ends with the exception r.err.
Transformed(op, r) ==
    /\ hist' = Append(hist, op)
    /\ prev' = cur
    /\ cur' = IF r.err = "none" THEN r.dfa ELSE cur
    /\ pc' = IF r.err = "none" THEN "built" ELSE "failed"
    /\ UNCHANGED <<word, acc>>

\* cur = DFA.complete(cur)
Complete ==
    /\ pc = "built" /\ hist = <<>>
    /\ Transformed("complete", complete(cur))

\* cur = DFA.minimize(cur), on a constructed automaton or on the result
\* of a first minimization.
Minimize ==
    /\ pc = "built" /\ hist \in {<<>>, <<"minimize">>}
    /\ LET dfa == complete(cur).dfa
           z == greatest_fixpoint(dfa, z_initial(dfa))
       IN  \E e \in Enumerations(equivalence_classes(dfa, z)) :
           \E order \in KeyOrders(DOMAIN dfa.transition_function) :
               Transformed("minimize", minimize(cur, e, order))

\* cur = DFA.reachable(cur)
Reachable ==
    /\ pc = "built" /\ hist = <<>>
    /\ Transformed("reachable", reachable(cur))

\* cur = DFA.coreachable(cur)
Coreachable ==
    /\ pc = "built" /\ hist = <<>>
    /\ Transformed("coreachable", coreachable(cur))

\* cur = DFA.trim(cur)
Trim ==
    /\ pc = "built" /\ hist = <<>>
    /\ Transformed("trim", trim(cur))

\* cur.word_acceptance(w), on a constructed or a transformed automaton.
WordAcceptance ==
    /\ pc = "built" /\ Len(hist) <= 1
    /\ \E w \in Words(cur.alphabet, MaxWordLen) :
          /\ word' = w
          /\ acc' = word_acceptance(cur, w)
    /\ hist' = Append(hist, "word_acceptance")
    /\ pc' = IF acc'.err = "none" THEN "queried" ELSE "failed"
    /\ UNCHANGED <<cur, prev>>

Next ==
    \/ Complete
    \/ Minimize
    \/ Reachable
    \/ Coreachable
    \/ Trim
    \/ WordAcceptance

NextPrune ==
    \/ Reachable
    \/ Coreachable
    \/ Trim

NextConstruct == Construct

\* Transformations and queries of a constructed automaton.
Spec == Init /\ [][Next]_vars

\* The pruning transformations alone.
SpecPrune == Init /\ [][NextPrune]_vars

\* The constructor on arbitrary arguments.
SpecConstruct == InitConstruct /\ [][NextConstruct]_vars

\* ------------------------------------------------- reference notions
\* delta(s, a) of the automaton d as the data model reads it: defined, or not.
Defined(d, s, a) ==
    /\ s \in DOMAIN d.transition_function
    /\ a \in DOMAIN d.transition_function[s]

\* The transitions of d as a set of triples.
Triples(d) ==
    {<<s, a, d.transition_function[s][a]>> : <<s, a>> \in
        {q \in (DOMAIN d.transition_function) \X Symbols : Defined(d, q[1], q[2])}}

\* Whether d accepts w from the state s: a missing transition rejects.
RECURSIVE AcceptsFrom(_, _, _)
AcceptsFrom(d, s, w) ==
    IF w = <<>> THEN s \in d.accepting_states
    ELSE /\ Defined(d, s, Head(w))
         /\ AcceptsFrom(d, d.transition_function[s][Head(w)], Tail(w))

\* Whether w is in the language of d; without an initial state it is empty.
Accepts(d, w) == d.initial_state # None /\ AcceptsFrom(d, d.initial_state, w)

\* Whether t is reached from s by at most n transitions of d.
RECURSIVE Reaches(_, _, _, _)
Reaches(d, s, t, n) ==
    \/ s = t
    \/ /\ n > 0
       /\ \E a \in Symbols :
             Defined(d, s, a) /\ Reaches(d, d.transition_function[s][a], t, n - 1)

\* The states of d reachable from its initial state.
ReachableStates(d) ==
    {t \in d.states :
        d.initial_state # None /\ Reaches(d, d.initial_state, t, Cardinality(d.states))}

\* The states of d from which an accepting state is reachable.
CoreachableStates(d) ==
    {s \in d.states :
        \E t \in d.accepting_states : Reaches(d, s, t, Cardinality(d.states))}

\* The number of Myhill-Nerode classes of the language of d: the number of
\* distinct residuals u^-1 L.  d completed has at most Cardinality(d.states) + 1
\* states, so prefixes and suffixes of that length tell all residuals apart.
NerodeClasses(d) ==
    LET n == Cardinality(d.states) + 1
        W == Words(d.alphabet, n)
        Residual(u) == {v \in W : Accepts(d, u \o v)}
    IN  Cardinality({Residual(u) : u \in W})

\* Whether d1 and d2 are the same automaton up to the names of the states.
Isomorphic(d1, d2) ==
    \E f \in [d1.states -> d2.states] :
        /\ \A s, t \in d1.states : s # t => f[s] # f[t]
        /\ {f[s] : s \in d1.states} = d2.states
        /\ d2.initial_state = f[d1.initial_state]
        /\ d2.accepting_states = {f[s] : s \in d1.accepting_states}
        /\ Triples(d2) = {<<f[tr[1]], tr[2], f[tr[3]]>> : tr \in Triples(d1)}

\* The last operation of the run.
LastOp == IF hist = <<>> THEN "none" ELSE hist[Len(hist)]

\* ----------------------------------------------------------- claims
\* C1. Completion totality: in DFA.complete(d) every pair (s, a) of a state
\* of the result (the sink and the states without an entry included) and a
\* symbol of the alphabet has a successor.
C1_CompleteIsTotal ==
    (hist = <<"complete">> /\ pc = "built") =>
        \A s \in cur.states : \A a \in cur.alphabet : Defined(cur, s, a)

\* C2. Minimization preserves the language: whenever word_acceptance of d
\* and of DFA.minimize(d) both return on a word, they return the same
\* boolean, d having an initial state.
C2_MinimizePreservesLanguage ==
    (/\ hist = <<"minimize", "word_acceptance">>
     /\ prev.initial_state # None
     /\ acc.err = "none"
     /\ word_acceptance(prev, word).err = "none") =>
        acc.value = word_acceptance(prev, word).value

\* C3. Minimality: DFA.minimize(d) has as many states as the language of d
\* has Myhill-Nerode classes, so no more than any DFA of that language.
C3_MinimizeIsMinimal ==
    (hist = <<"minimize">> /\ pc = "built" /\ prev.initial_state # None) =>
        Cardinality(cur.states) <= NerodeClasses(prev)

\* C4. Trim preserves the language: on every word that word_acceptance of d
\* returns a boolean for, word_acceptance of DFA.trim(d) returns the same
\* boolean, d having an initial state.
C4_TrimPreservesLanguage ==
    (/\ hist = <<"trim", "word_acceptance">>
     /\ prev.initial_state # None
     /\ word_acceptance(prev, word).err = "none") =>
        /\ acc.err = "none"
        /\ acc.value = word_acceptance(prev, word).value

\* C5. Construction validation: the constructor fails whenever its
\* arguments break one of the invariants 1-3 of the data model.
C5_MalformedIsRejected ==
    (pc # "new" /\ ~ WellFormed(cur)) => pc = "rejected"

\* C6. word_acceptance never raises on a well-formed DFA with an initial
\* state: it returns false when a transition is missing, and otherwise
\* whether the state reached is accepting.
C6_WordAcceptanceIsTotal ==
    (LastOp = "word_acceptance" /\ cur.initial_state # None) =>
        /\ acc.err = "none"
        /\ acc.value = Accepts(cur, word)

\* C7. Transformations are total: complete, minimize, reachable,
\* coreachable and trim return a DFA for every well-formed DFA, also for
\* one without an initial state.
C7_TransformationsAreTotal ==
    (LastOp \in {"complete", "minimize", "reachable", "coreachable", "trim"}) =>
        pc = "built"

\* C8. Minimization is idempotent: DFA.minimize(DFA.minimize(d)) is
\* isomorphic to DFA.minimize(d).
C8_MinimizeIsIdempotent ==
    (hist = <<"minimize", "minimize">> /\ pc = "built") => Isomorphic(prev, cur)

\* C9. Reachability is exact: the states of DFA.reachable(d) are the states
\* reachable from the initial state of d (none when d has no initial
\* state), its transitions are those of d between these states, its
\* accepting states those of d among them.
C9_ReachableIsExact ==
    (hist = <<"reachable">> /\ pc = "built") =>
        /\ cur.states = ReachableStates(prev)
        /\ Triples(cur) =
              {tr \in Triples(prev) : tr[1] \in cur.states /\ tr[3] \in cur.states}
        /\ cur.accepting_states = prev.accepting_states \cap cur.states
        /\ prev.initial_state = None => cur.states = {}

\* C10. Coreachability is exact: the states of DFA.coreachable(d) are the
\* states of d from which an accepting state is reachable in zero or more
\* transitions, and the initial state is that of d if it is among them and
\* absent otherwise.
C10_CoreachableIsExact ==
    (hist = <<"coreachable">>) =>
        /\ pc = "built"
        /\ cur.states = CoreachableStates(prev)
        /\ prev.accepting_states \subseteq cur.states
        /\ cur.initial_state =
              IF prev.initial_state \in CoreachableStates(prev)
              THEN prev.initial_state ELSE None

\* C10 happens: coreachable has kept a state and has pruned another, the
\* initial state, which is absent from the result.
C10_Witness ==
    /\ hist = <<"coreachable">>
    /\ prev.initial_state # None
    /\ cur.initial_state = None
    /\ cur.states # {}
    /\ cur.states # prev.states

====
